---- MODULE Spec2Model ----
(***************************************************************************)
(* A model of xen/drivers/char/ns16550.c, the driver for 16550-series      *)
(* UARTs, as built for x86 (HAS_IOPORTS, CONFIG_X86; reg_width = 1,         *)
(* reg_shift = 0 as ns16550_init sets them).                               *)
(*                                                                         *)
(* The two descriptors ns16550_com[0..1], the file-scope counter           *)
(* delayed_resume_tries, the two timers of each descriptor and a register  *)
(* bank per port are the state.  Every driver entry point is one action.   *)
(***************************************************************************)
EXTENDS Integers, Sequences, FiniteSets, TLC

(***************************************************************************)
(* Bounds of the model.                                                    *)
(***************************************************************************)
\* Bytes the receive FIFO of the simulated controller holds at most.
MaxRx == 2
\* RESUME_RETRIES of xen/8250-uart.h is 100; the model runs the same code
\* with a smaller retry bound.
RESUME_RETRIES == 2
\* Highest bus, device and function number of the simulated PCI
\* configuration space (255, 31 and 7 on the real bus).
MaxBus == 1
MaxDev == 1
MaxFn == 1

(***************************************************************************)
(* Register indices and bits (xen/8250-uart.h).                            *)
(***************************************************************************)
UART_RBR == 0
UART_THR == 0
UART_DLL == 0
UART_IER == 1
UART_DLM == 1
UART_IIR == 2
UART_FCR == 2
UART_LCR == 3
UART_MCR == 4
UART_LSR == 5
UART_MSR == 6

UART_IER_ERDAI  == 1
UART_IER_ETHREI == 2
UART_IIR_NOINT  == 1
UART_IIR_THR    == 2
UART_IIR_RDA    == 4
UART_FCR_ENABLE == 1
UART_FCR_CLRX   == 2
UART_FCR_CLTX   == 4
UART_FCR_TRG14  == 192
UART_LCR_DLAB   == 128
UART_MCR_DTR    == 1
UART_MCR_RTS    == 2
UART_MCR_OUT2   == 8
UART_MCR_LOOP   == 16
UART_LSR_DR     == 1
UART_LSR_THRE   == 32
UART_LSR_TEMT   == 64
UART_PARITY_NONE == 0
UART_PARITY_ODD  == 8
UART_PARITY_EVEN == 24
BAUD_AUTO     == -1
UART_CLOCK_HZ == 1843200
EIO           == 5

\* What a read of a register of absent hardware returns (all ones).
AllOnes == 255
\* The byte the simulated line delivers.
RxData == 65

(***************************************************************************)
(* Bit arithmetic on bytes.                                                *)
(***************************************************************************)
RECURSIVE BitAnd(_, _)
BitAnd(a, b) ==
    IF a = 0 \/ b = 0 THEN 0
    ELSE (a % 2) * (b % 2) + 2 * BitAnd(a \div 2, b \div 2)

BitOr(a, b) == a + b - BitAnd(a, b)

\* (v & m) != 0, for a mask m of one bit
Test(v, m) == (v \div m) % 2 = 1

Ports == {0, 1}

\* F applied to the value of e: e is evaluated once, as a statement's
\* result is computed once before the next statement uses it.
Then(e, F(_)) == CHOOSE r \in {F(x) : x \in {e}} : TRUE

(***************************************************************************)
(* The register bank of one controller.                                    *)
(*   present   the bank answers; absent hardware reads as all ones and     *)
(*             drops writes                                                *)
(*   iermask   the bits of IER that can be written                         *)
(*   ierstuck  bits of IER that always read 1                              *)
(*   loopok    loopback mode routes MCR to MSR                             *)
(*   msr       the modem-status lines outside loopback                     *)
(*   fifo      a 16550+ with FIFOs                                         *)
(*   rx        bytes waiting in the receiver                               *)
(*   thre      transmit-holding register empty                             *)
(*   thri      a THRE interrupt is pending                                 *)
(***************************************************************************)
ResetBank(present, iermask, ierstuck, loopok, msr, fifo, dll, dlm) ==
    [present |-> present, iermask |-> iermask, ierstuck |-> ierstuck,
     loopok |-> loopok, msr |-> msr, fifo |-> fifo,
     ier |-> 0, lcr |-> 0, mcr |-> 0, fcr |-> 0, dll |-> dll, dlm |-> dlm,
     rx |-> 0, thre |-> TRUE, thri |-> FALSE]

Dlab(h) == Test(h.lcr, UART_LCR_DLAB)

\* The modem-status register: in loopback the upper nibble mirrors MCR.
MsrVal(h) ==
    IF Test(h.mcr, UART_MCR_LOOP) /\ h.loopok
    THEN (IF Test(h.mcr, UART_MCR_RTS) THEN 16 ELSE 0)
       + (IF Test(h.mcr, UART_MCR_DTR) THEN 32 ELSE 0)
       + (IF Test(h.mcr, 4) THEN 64 ELSE 0)
       + (IF Test(h.mcr, UART_MCR_OUT2) THEN 128 ELSE 0)
    ELSE h.msr

\* The interrupt-identification register.
IirVal(h) ==
    (IF h.fifo /\ Test(h.fcr, UART_FCR_ENABLE) THEN 192 ELSE 0)
  + (IF Test(h.ier, UART_IER_ERDAI) /\ h.rx > 0 THEN UART_IIR_RDA
     ELSE IF Test(h.ier, UART_IER_ETHREI) /\ h.thri THEN UART_IIR_THR
     ELSE UART_IIR_NOINT)

LsrVal(h) ==
    (IF h.rx > 0 THEN UART_LSR_DR ELSE 0)
  + (IF h.thre THEN UART_LSR_THRE + UART_LSR_TEMT ELSE 0)

\* The byte a read of register reg returns (unsigned).
RegVal(h, reg) ==
    IF ~h.present THEN AllOnes
    ELSE CASE reg = 0 -> IF Dlab(h) THEN h.dll
                         ELSE IF h.rx > 0 THEN RxData ELSE 0
           [] reg = 1 -> IF Dlab(h) THEN h.dlm
                         ELSE IF h.ierstuck = 0 THEN h.ier
                         ELSE BitOr(h.ier, h.ierstuck)
           [] reg = 2 -> IirVal(h)
           [] reg = 3 -> h.lcr
           [] reg = 4 -> h.mcr
           [] reg = 5 -> LsrVal(h)
           [] reg = 6 -> MsrVal(h)
           [] OTHER   -> 0

\* The bank after a read of register reg: RBR pops a byte, IIR acknowledges
\* a THRE interrupt it reported.
AfterRead(h, reg) ==
    IF ~h.present THEN h
    ELSE CASE reg = 0 /\ ~Dlab(h) /\ h.rx > 0 -> [h EXCEPT !.rx = h.rx - 1]
           [] reg = 2 /\ IirVal(h) % 8 = UART_IIR_THR ->
                  [h EXCEPT !.thri = FALSE]
           [] OTHER -> h

\* The bank after a write of byte c to register reg.
AfterWrite(h, reg, c) ==
    IF ~h.present THEN h
    ELSE CASE reg = 0 -> IF Dlab(h) THEN [h EXCEPT !.dll = c]
                         ELSE [h EXCEPT !.thre = FALSE, !.thri = FALSE]
           [] reg = 1 -> IF Dlab(h) THEN [h EXCEPT !.dlm = c]
                         ELSE [h EXCEPT !.ier = IF h.iermask = 15 THEN c % 16
                                                ELSE BitAnd(c, h.iermask),
                                        !.thri = h.thri \/
                                          (h.thre /\ Test(c, UART_IER_ETHREI)
                                             /\ ~Test(h.ier, UART_IER_ETHREI))]
           [] reg = 2 -> [h EXCEPT !.fcr = c,
                                   !.rx = IF Test(c, UART_FCR_CLRX) THEN 0
                                          ELSE h.rx]
           [] reg = 3 -> [h EXCEPT !.lcr = c]
           [] reg = 4 -> [h EXCEPT !.mcr = c]
           [] OTHER   -> h

(***************************************************************************)
(* PCI configuration space: one record per (bus, device, function).        *)
(*   cls    PCI_CLASS_DEVICE; 0xffff when no function answers              *)
(*   multi  bit 7 of PCI_HEADER_TYPE                                       *)
(*   bar    the base address registers, bit 0 set for an I/O BAR           *)
(*   mask   the address bits of each BAR that can be written               *)
(*   pin, line  PCI_INTERRUPT_PIN, PCI_INTERRUPT_LINE                      *)
(*   cmd    PCI_COMMAND                                                    *)
(* The base address registers are indexed like the ports, as the driver    *)
(* uses the port's index for bar_idx.                                      *)
(***************************************************************************)
PCI_BASE_ADDRESS_SPACE_IO == 1
ClassNone == 65535
SerialClasses == {1792, 1794, 1920}
\* ~0u, the value the locator writes to size a BAR
AllOnes32 == -1

PciSlots == (0..MaxBus) \X (0..MaxDev) \X (0..MaxFn)

NoFunction ==
    [cls |-> ClassNone, multi |-> TRUE, bar |-> [i \in Ports |-> 0],
     mask |-> [i \in Ports |-> 0], pin |-> 0, line |-> 0, cmd |-> 0]

\* pci_conf_read32(0, b, d, f, PCI_BASE_ADDRESS_0 + i*4)
PciReadBar(cfg, s, i) ==
    IF cfg[s].cls = ClassNone THEN AllOnes32 ELSE cfg[s].bar[i]

\* pci_conf_write32(0, b, d, f, PCI_BASE_ADDRESS_0 + i*4, v): the function
\* keeps the address bits it implements and the type bit of the BAR.
PciWriteBar(cfg, s, i, v) ==
    IF cfg[s].cls = ClassNone THEN cfg
    ELSE [cfg EXCEPT ![s].bar[i] =
            (IF v = AllOnes32 THEN cfg[s].mask[i]
             ELSE BitAnd(v - (v % 2), cfg[s].mask[i]))
            + (@ % 2)]

(***************************************************************************)
(* The driver's view of one port while a handler runs: the descriptor u,   *)
(* the register bank h, the two timers, the file-scope retry counter and   *)
(* what the invocation has done so far (o).                                *)
(***************************************************************************)
NoObs ==
    [reads |-> 0, writes |-> 0, rx |-> 0, tx |-> 0, rearm |-> 0, sched |-> 0,
     pre |-> 0, post |-> 0, real |-> 0, ret |-> 0, ms |-> 0,
     trap |-> FALSE, loc |-> "none", bus |-> "",
     pass |-> 0, thre |-> 0, dr |-> 0, pc |-> 256]

\* struct ns16550, zero-initialised
ZeroUart ==
    [baud |-> 0, clock_hz |-> 0, data_bits |-> 0, parity |-> 0,
     stop_bits |-> 0, fifo_size |-> 0, irq |-> 0, io_base |-> 0,
     remapped |-> FALSE, timeout_ms |-> 0, intr_works |-> FALSE,
     ps_bdf |-> <<0, 0, 0>>, bar |-> 0, bar_idx |-> 0, cr |-> 0]

\* C integer conversions
U8(c)  == c % 256
S8(v)  == IF v % 256 >= 128 THEN (v % 256) - 256 ELSE v % 256

\* static char ns_read_reg(uart, reg): char is signed on x86
ns_read_reg(m, reg) == S8(RegVal(m.h, reg))

\* the machine after the bus transaction of a read / a write
DidRead(m, reg) ==
    [m EXCEPT !.h = AfterRead(@, reg), !.o.reads = @ + 1]

ns_write_reg(m, reg, c) ==
    [m EXCEPT !.h = AfterWrite(@, reg, U8(c)), !.o.writes = @ + 1]

\* (unsigned char)ns_read_reg(uart, UART_IER) == 0xff
ns16550_ioport_invalid(m) == U8(ns_read_reg(m, UART_IER)) = AllOnes

\* set_timer(&uart->timer, NOW() + MILLISECS(uart->timeout_ms))
set_timer(m) ==
    [m EXCEPT !.timer = TRUE, !.o.rearm = @ + 1, !.o.ms = m.u.timeout_ms]

\* set_timer(&uart->resume_timer, NOW() + RESUME_DELAY)
set_resume_timer(m) == [m EXCEPT !.resume_timer = TRUE, !.o.sched = @ + 1]

(***************************************************************************)
(* tx_ready, putc, getc                                                    *)
(***************************************************************************)
\* a tx_ready that looks at the interrupt identification register first
tx_ready_reading_iir(m) ==
    LET m0 == DidRead(m, UART_IIR)
        m1 == DidRead(m0, UART_IER)
    IN
    IF ns16550_ioport_invalid(m0)
    THEN [m1 EXCEPT !.o.ret = -EIO]
    ELSE LET lsr == ns_read_reg(m1, UART_LSR)
             m2  == DidRead(m1, UART_LSR)
         IN [m2 EXCEPT !.o.ret = IF Test(U8(lsr), UART_LSR_THRE)
                                 THEN m.u.fifo_size ELSE 0]

\* a tx_ready that reports "not ready" when the hardware is gone
tx_ready_zero_when_gone(m) ==
    LET m1 == DidRead(m, UART_IER) IN
    IF ns16550_ioport_invalid(m)
    THEN [m1 EXCEPT !.o.ret = 0]
    ELSE LET lsr == ns_read_reg(m1, UART_LSR)
             m2  == DidRead(m1, UART_LSR)
         IN [m2 EXCEPT !.o.ret = IF Test(U8(lsr), UART_LSR_THRE)
                                 THEN m.u.fifo_size ELSE 0]

ns16550_tx_ready(m) ==
    LET m1 == DidRead(m, UART_IER) IN
    IF ns16550_ioport_invalid(m)
    THEN [m1 EXCEPT !.o.ret = -EIO]
    ELSE LET lsr == ns_read_reg(m1, UART_LSR)
             m2  == DidRead(m1, UART_LSR)
         IN [m2 EXCEPT !.o.ret = IF Test(U8(lsr), UART_LSR_THRE)
                                 THEN m.u.fifo_size ELSE 0]

ns16550_putc(m, c) == ns_write_reg(m, UART_THR, c)

\* a getc that trusts the line status without the presence check
getc_without_presence_check(m) ==
    LET lsr == ns_read_reg(m, UART_LSR)
        m2  == DidRead(m, UART_LSR)
    IN IF ~Test(U8(lsr), UART_LSR_DR)
       THEN [m2 EXCEPT !.o.ret = 0]
       ELSE [DidRead(m2, UART_RBR) EXCEPT
               !.o.ret = 1, !.o.pc = ns_read_reg(m2, UART_RBR)]

\* o.pc is what *pc holds afterwards: 256, no char, while it is not written
ns16550_getc(m) ==
    LET m1 == DidRead(m, UART_IER) IN
    IF ns16550_ioport_invalid(m)
    THEN [m1 EXCEPT !.o.ret = 0]
    ELSE LET lsr == ns_read_reg(m1, UART_LSR)
             m2  == DidRead(m1, UART_LSR)
         IN IF ~Test(U8(lsr), UART_LSR_DR)
            THEN [m2 EXCEPT !.o.ret = 0]
            ELSE [DidRead(m2, UART_RBR) EXCEPT
                    !.o.ret = 1, !.o.pc = ns_read_reg(m2, UART_RBR)]

(***************************************************************************)
(* The callbacks of the generic serial layer (xen/drivers/char/serial.c):  *)
(* the receive callback fetches one byte with getc; the transmit callback  *)
(* asks tx_ready and, when the layer has output queued (txq), sends.       *)
(***************************************************************************)
serial_rx_interrupt(m) ==
    [ns16550_getc(m) EXCEPT !.o.rx = @ + 1]

serial_tx_interrupt(m, txq) ==
    Then(ns16550_tx_ready(m),
         LAMBDA r : [(IF r.o.ret > 0 /\ txq THEN ns16550_putc(r, RxData)
                      ELSE r) EXCEPT !.o.tx = @ + 1])

(***************************************************************************)
(* ns16550_interrupt                                                       *)
(***************************************************************************)
\* The line status a pass of the loop has read: o.pass counts the passes,
\* o.thre and o.dr those that found THRE and DR set.
LoopPass(m, lsr) ==
    [m EXCEPT !.o.pass = @ + 1,
              !.o.thre = @ + (IF Test(U8(lsr), UART_LSR_THRE) THEN 1 ELSE 0),
              !.o.dr   = @ + (IF Test(U8(lsr), UART_LSR_DR) THEN 1 ELSE 0)]

\* a loop that leaves the transmitter to the poll timer
RECURSIVE interrupt_loop_skipping_tx(_, _)
interrupt_loop_skipping_tx(m, txq) ==
    LET iir == ns_read_reg(m, UART_IIR)
        m1  == DidRead(m, UART_IIR)
    IN IF Test(U8(iir), UART_IIR_NOINT) THEN m1
       ELSE LET lsr == ns_read_reg(m1, UART_LSR)
                m2  == LoopPass(DidRead(m1, UART_LSR), lsr)
                m4  == IF Test(U8(lsr), UART_LSR_DR)
                       THEN serial_rx_interrupt(m2) ELSE m2
            IN interrupt_loop_skipping_tx(m4, txq)

RECURSIVE InterruptLoop(_, _)
InterruptLoop(m, txq) ==
    LET iir == ns_read_reg(m, UART_IIR)
        m1  == DidRead(m, UART_IIR)
    IN IF Test(U8(iir), UART_IIR_NOINT) THEN m1
       ELSE LET lsr == ns_read_reg(m1, UART_LSR)
                m2  == LoopPass(DidRead(m1, UART_LSR), lsr)
                m3  == IF Test(U8(lsr), UART_LSR_THRE)
                       THEN serial_tx_interrupt(m2, txq) ELSE m2
                m4  == IF Test(U8(lsr), UART_LSR_DR)
                       THEN serial_rx_interrupt(m3) ELSE m3
            IN InterruptLoop(m4, txq)

ns16550_interrupt(m, txq) ==
    InterruptLoop([m EXCEPT !.u.intr_works = TRUE], txq)

(***************************************************************************)
(* __ns16550_poll.  van is the number of passes of the receive loop after  *)
(* which the hardware stops answering during this invocation (-1: it does  *)
(* not).                                                                   *)
(***************************************************************************)
RECURSIVE PollRx(_, _)
PollRx(m, van) ==
    LET m0  == IF van = 0 THEN [m EXCEPT !.h.present = FALSE] ELSE m
        lsr == ns_read_reg(m0, UART_LSR)
        m1  == DidRead(m0, UART_LSR)
    IN IF ~Test(U8(lsr), UART_LSR_DR) THEN [m |-> m1, out |-> FALSE]
       ELSE LET m2 == DidRead(m1, UART_IER) IN
            IF ns16550_ioport_invalid(m1) THEN [m |-> m2, out |-> TRUE]
            ELSE Then(serial_rx_interrupt(m2),
                      LAMBDA n : PollRx(n, IF van > 0 THEN van - 1 ELSE van))

PollTx(m, txq) ==
    LET lsr == ns_read_reg(m, UART_LSR)
        m1  == DidRead(m, UART_LSR)
    IN IF Test(U8(lsr), UART_LSR_THRE) THEN serial_tx_interrupt(m1, txq)
       ELSE m1

\* __ns16550_poll without the intr_works test
poll_without_intr_check(m, van, txq) ==
    LET r == PollRx(m, van) IN
    set_timer(IF r.out THEN r.m ELSE PollTx(r.m, txq))

\* __ns16550_poll going on to the transmit side after the receive loop was
\* abandoned
poll_tx_after_abandon(m, van, txq) ==
    IF m.u.intr_works THEN m
    ELSE LET r == PollRx(m, van) IN set_timer(PollTx(r.m, txq))

\* __ns16550_poll returning without set_timer when the receive loop was
\* abandoned
poll_no_rearm_on_abandon(m, van, txq) ==
    IF m.u.intr_works THEN m
    ELSE LET r == PollRx(m, van) IN
         IF r.out THEN r.m ELSE set_timer(PollTx(r.m, txq))

\* __ns16550_poll from its receive loop on, after the test of intr_works
PollRest(m, van, txq) ==
    Then(PollRx(m, van),
         LAMBDA r : set_timer(IF r.out THEN r.m ELSE PollTx(r.m, txq)))

ns16550_poll(m, van, txq) ==
    IF m.u.intr_works THEN m ELSE PollRest(m, van, txq)

(***************************************************************************)
(* The two setup phases.  An integer division by zero traps (#DE): the     *)
(* invocation stops there and o.trap records it.                           *)
(***************************************************************************)
\* C's integer division truncates towards zero.
CDiv(a, b) ==
    IF (a >= 0) = (b > 0) THEN (IF a >= 0 THEN a ELSE -a) \div (IF b > 0 THEN b ELSE -b)
    ELSE -((IF a >= 0 THEN a ELSE -a) \div (IF b > 0 THEN b ELSE -b))

\* lcr = (data_bits - 5) | ((stop_bits - 1) << 2) | parity, as a byte
LcrOf(u) ==
    U8(BitOr(BitOr(U8(u.data_bits - 5), U8((u.stop_bits - 1) * 4)), u.parity))

\* Baud rate specified: program it into the divisor latch.
ProgramDivisor(m) ==
    LET sh == m.u.baud * 16 IN
    IF sh = 0 THEN [m EXCEPT !.o.trap = TRUE]
    ELSE LET divisor == CDiv(m.u.clock_hz, sh)
             a == ns_write_reg(m, UART_DLL, divisor % 256)
         IN ns_write_reg(a, UART_DLM, (divisor \div 256) % 256)

\* Baud rate already set: read it out from the divisor latch.  The two
\* reads return char, which the build sign-extends: with bit 7 of either
\* byte set, the unsigned divisor is 2^32 - k for some k in 1..65536, and
\* divisor << 4 = 2^32 - 16k is larger than every clock_hz, so the quotient
\* is 0.
ReadDivisor(m) ==
    LET dll == ns_read_reg(m, UART_DLL)
        a   == DidRead(m, UART_DLL)
        dlm == ns_read_reg(a, UART_DLM)
        b   == DidRead(a, UART_DLM)
        sh  == (dll + dlm * 256) * 16
    IN IF dll < 0 \/ dlm < 0 THEN [b EXCEPT !.u.baud = 0]
       ELSE IF sh = 0 THEN [b EXCEPT !.o.trap = TRUE]
       ELSE [b EXCEPT !.u.baud = m.u.clock_hz \div sh]

\* ns16550_setup_preirq up to the write that selects the divisor latch
SelectLatch(m) ==
    LET m0 == [m EXCEPT !.u.intr_works = FALSE, !.o.pre = @ + 1]
        a  == ns_write_reg(m0, UART_IER, 0)
    IN ns_write_reg(a, UART_LCR, BitOr(LcrOf(m.u), UART_LCR_DLAB))

\* ns16550_setup_preirq from there: the divisor, then LCR without DLAB, MCR
\* and FCR
ProgramLatch(m) ==
    LET lcr == LcrOf(m.u)
        c   == IF m.u.baud # BAUD_AUTO THEN ProgramDivisor(m)
               ELSE ReadDivisor(m)
        Rest(r) ==
            IF r.o.trap THEN r
            ELSE ns_write_reg(
                   ns_write_reg(
                     ns_write_reg(r, UART_LCR, lcr),
                     UART_MCR, UART_MCR_DTR + UART_MCR_RTS),
                   UART_FCR, UART_FCR_ENABLE + UART_FCR_CLRX
                             + UART_FCR_CLTX + UART_FCR_TRG14)
    IN Then(c, Rest)

ns16550_setup_preirq(m) == Then(SelectLatch(m), ProgramLatch)

\* a post-interrupt setup that arms the poll timer of a polled port only
setup_postirq_arming_polled_only(m) ==
    LET m0 == [m EXCEPT !.o.post = @ + 1]
        a  == IF m.u.irq > 0
              THEN ns_write_reg(
                     ns_write_reg(m0, UART_MCR, UART_MCR_OUT2 + UART_MCR_DTR
                                                + UART_MCR_RTS),
                     UART_IER, UART_IER_ERDAI + UART_IER_ETHREI)
              ELSE m0
    IN IF m.u.irq = 0 THEN set_timer(a) ELSE a

ns16550_setup_postirq(m) ==
    LET m0 == [m EXCEPT !.o.post = @ + 1]
        a  == IF m.u.irq > 0
              THEN ns_write_reg(
                     ns_write_reg(m0, UART_MCR, UART_MCR_OUT2 + UART_MCR_DTR
                                                + UART_MCR_RTS),
                     UART_IER, UART_IER_ERDAI + UART_IER_ETHREI)
              ELSE m0
    IN IF m.u.irq >= 0 THEN set_timer(a) ELSE a

\* I/O ports are distinguished by their size (16 bits).
IsMmio(u) == u.io_base >= 65536

\* an init_preirq that takes the FIFOs for granted
init_preirq_assuming_fifo(m) ==
    LET m0 == IF IsMmio(m.u) THEN [m EXCEPT !.u.remapped = TRUE] ELSE m
        a  == ns16550_setup_preirq(m0)
    IN IF a.o.trap THEN a ELSE [a EXCEPT !.u.fifo_size = 16]

ns16550_init_preirq(m) ==
    LET m0 == IF IsMmio(m.u) THEN [m EXCEPT !.u.remapped = TRUE] ELSE m
        a  == ns16550_setup_preirq(m0)
        i1 == ns_read_reg(a, UART_IIR)
        b  == DidRead(a, UART_IIR)
        i2 == ns_read_reg(b, UART_FCR)
        c  == DidRead(b, UART_FCR)
    IN IF a.o.trap THEN a
       ELSE IF U8(i1) \div 64 # 3 THEN b
       ELSE IF U8(i2) \div 64 # UART_FCR_TRG14 \div 64 THEN c
       ELSE [c EXCEPT !.u.fifo_size = 16]

\* max_t(unsigned int, 1, (bits * fifo_size * 1000) / baud)
TimeoutOf(u) ==
    LET bits == u.data_bits + u.stop_bits
                + (IF u.parity # 0 THEN 1 ELSE 0)
        q    == CDiv(bits * u.fifo_size * 1000, u.baud)
    IN IF q > 1 THEN q ELSE 1

\* rc is what setup_irq returns
ns16550_init_postirq(m, rc) ==
    IF m.u.irq < 0 THEN m
    ELSE IF m.u.baud = 0 THEN [m EXCEPT !.o.trap = TRUE]
    ELSE LET a == [m EXCEPT !.timer = FALSE, !.resume_timer = FALSE,
                            !.u.timeout_ms = TimeoutOf(m.u)]
         IN ns16550_setup_postirq(
              [a EXCEPT !.irq_ok = (m.u.irq > 0 /\ rc = 0)])

(***************************************************************************)
(* Suspend and resume.                                                     *)
(***************************************************************************)
\* a suspend that also forgets that interrupts work
suspend_clearing_intr_works(m) ==
    [m EXCEPT !.timer = FALSE, !.u.intr_works = FALSE]

ns16550_suspend(m) ==
    IF m.u.bar # 0
    THEN [m EXCEPT !.timer = FALSE, !.u.cr = m.pci[m.u.ps_bdf].cmd]
    ELSE [m EXCEPT !.timer = FALSE]

\* _ns16550_resume: the BAR and the command register of a PCI port first
RestorePci(m) ==
    IF m.u.bar = 0 THEN m
    ELSE [m EXCEPT !.pci =
            [PciWriteBar(@, m.u.ps_bdf, m.u.bar_idx, m.u.bar)
               EXCEPT ![m.u.ps_bdf].cmd = m.u.cr]]

ns16550_real_resume(m) ==
    Then(ns16550_setup_preirq([RestorePci(m) EXCEPT !.o.real = @ + 1]),
         LAMBDA a : IF a.o.trap THEN a ELSE ns16550_setup_postirq(a))

\* if ( ns16550_ioport_invalid(port->uart) && delayed_resume_tries-- )
ns16550_delayed_resume(m) ==
    LET a == DidRead(m, UART_IER) IN
    IF ns16550_ioport_invalid(m)
    THEN LET b == [a EXCEPT !.tries = m.tries - 1] IN
         IF m.tries # 0 THEN set_resume_timer(b)
         ELSE ns16550_real_resume(b)
    ELSE ns16550_real_resume(a)

ns16550_resume(m) ==
    LET a == DidRead(m, UART_IER) IN
    IF ns16550_ioport_invalid(m)
    THEN set_resume_timer([a EXCEPT !.tries = RESUME_RETRIES])
    ELSE ns16550_real_resume(a)

(***************************************************************************)
(* Identification probe and configuration parser.                          *)
(***************************************************************************)
parse_parity_char(c) ==
    CASE c = "n" -> UART_PARITY_NONE
      [] c = "o" -> UART_PARITY_ODD
      [] c = "e" -> UART_PARITY_EVEN
      [] c = "m" -> 40
      [] c = "s" -> 56
      [] OTHER   -> 0

\* an existence test that leaves IER at the last pattern it wrote
existence_test_without_restore(m) ==
    LET a  == ns_write_reg(DidRead(m, UART_IER), UART_IER, 0)
        scratch2 == U8(ns_read_reg(a, UART_IER)) % 16
        b  == ns_write_reg(DidRead(a, UART_IER), UART_IER, 15)
        scratch3 == U8(ns_read_reg(b, UART_IER)) % 16
    IN [m |-> DidRead(b, UART_IER), ok |-> (scratch2 = 0 /\ scratch3 = 15)]

\* The existence test on IER: what the three reads saw, and the bank after
\* the original value has been written back.
ExistenceTest(m) ==
    LET scratch  == U8(ns_read_reg(m, UART_IER))
        a  == ns_write_reg(DidRead(m, UART_IER), UART_IER, 0)
        scratch2 == U8(ns_read_reg(a, UART_IER)) % 16
        b  == ns_write_reg(DidRead(a, UART_IER), UART_IER, 15)
        scratch3 == U8(ns_read_reg(b, UART_IER)) % 16
        c  == ns_write_reg(DidRead(b, UART_IER), UART_IER, scratch)
    IN [m |-> c, ok |-> (scratch2 = 0 /\ scratch3 = 15)]

\* The loopback test on MCR/MSR.
LoopbackTest(m) ==
    LET a == ns_write_reg(m, UART_MCR, UART_MCR_LOOP + 10)
        status == (U8(ns_read_reg(a, UART_MSR)) \div 16) * 16
    IN [m |-> DidRead(a, UART_MSR), ok |-> (status = 144)]

\* check_existence without the loopback test
existence_without_loopback(m) ==
    IF IsMmio(m.u) THEN [m |-> m, ok |-> TRUE] ELSE ExistenceTest(m)

check_existence(m) ==
    IF IsMmio(m.u) THEN [m |-> m, ok |-> TRUE]
    ELSE LET e == ExistenceTest(m) IN
         IF ~e.ok THEN e ELSE LoopbackTest(e.m)

\* the sanity checks without the one on stop_bits
sanity_without_stop_bits(u) ==
    IF u.baud # BAUD_AUTO /\ (u.baud < 1200 \/ u.baud > 115200) THEN "baud"
    ELSE IF u.data_bits < 5 \/ u.data_bits > 8 THEN "data_bits"
    ELSE IF u.io_base = 0 THEN "io_base"
    ELSE "ok"

\* The sanity checks after config_parsed: the reason of the rejection, or
\* "ok".
SanityCheck(u) ==
    IF u.baud # BAUD_AUTO /\ (u.baud < 1200 \/ u.baud > 115200) THEN "baud"
    ELSE IF u.data_bits < 5 \/ u.data_bits > 8 THEN "data_bits"
    ELSE IF u.stop_bits < 1 \/ u.stop_bits > 2 THEN "stop_bits"
    ELSE IF u.io_base = 0 THEN "io_base"
    ELSE "ok"

NoConf ==
    [present |-> FALSE, baud |-> <<>>, clock |-> <<>>, dps |-> <<>>,
     io |-> <<>>, bus |-> "", irq |-> <<>>]

Conf(baud, dps, io, irq) ==
    [present |-> TRUE, baud |-> baud, clock |-> <<>>, dps |-> dps,
     io |-> io, bus |-> "", irq |-> irq]

\* <baud>,DPS,pci   <baud>,DPS,amt
PciConf(baud, dps, bus, irq) ==
    [present |-> TRUE, baud |-> baud, clock |-> <<>>, dps |-> dps,
     io |-> <<>>, bus |-> bus, irq |-> irq]

Dps(d, p, s) == <<[d |-> d, p |-> p, s |-> s]>>

\* The fields of the configuration string, each a sequence that is empty
\* when the string omits the field:
\*   <baud>[/<clock_hz>][,DPS[,<io-base>[,<irq>]]]
\* A conf with present = FALSE is the empty string.
ApplyConf(u, conf) ==
    LET u1 == IF conf.baud = <<>> THEN u
              ELSE IF conf.baud[1] = BAUD_AUTO THEN [u EXCEPT !.baud = BAUD_AUTO]
              ELSE IF conf.baud[1] # 0 THEN [u EXCEPT !.baud = conf.baud[1]]
              ELSE u
        u2 == IF conf.clock = <<>> THEN u1
              ELSE [u1 EXCEPT !.clock_hz = conf.clock[1] * 16]
        u3 == IF conf.dps = <<>> THEN u2
              ELSE [u2 EXCEPT !.data_bits = conf.dps[1].d,
                              !.parity = parse_parity_char(conf.dps[1].p),
                              !.stop_bits = conf.dps[1].s]
        u4 == IF conf.io = <<>> THEN u3
              ELSE [u3 EXCEPT !.io_base = conf.io[1]]
    IN IF conf.irq = <<>> THEN u4 ELSE [u4 EXCEPT !.irq = conf.irq[1]]

\* The scan of pci_uart_config from (b, d, f) on.  The function loop ends
\* at MaxFn + 1 where the code has 8.
RECURSIVE ScanPci(_, _, _, _, _)
ScanPci(m, bar_idx, b, d, f) ==
    IF b > MaxBus THEN [m |-> m, found |-> FALSE]
    ELSE IF d > MaxDev THEN ScanPci(m, bar_idx, b + 1, 0, 0)
    ELSE IF f > MaxFn THEN ScanPci(m, bar_idx, b, d + 1, 0)
    ELSE
      LET s     == <<b, d, f>>
          fn    == m.pci[s]
          nextf == IF f # 0 \/ fn.multi THEN f + 1 ELSE MaxFn + 1
          bar   == PciReadBar(m.pci, s, bar_idx)
          Sized(cfg1) ==
              LET len == PciReadBar(cfg1, s, 0)
                  m2  == [m EXCEPT !.pci = PciWriteBar(cfg1, s, bar_idx, bar)]
              IN IF len % 65536 # 65529
                 THEN Then(m2, LAMBDA n : ScanPci(n, bar_idx, b, d, nextf))
                 ELSE [m |-> [m2 EXCEPT
                                !.u.ps_bdf  = s,
                                !.u.bar     = bar,
                                !.u.bar_idx = bar_idx,
                                !.u.io_base = bar - (bar % 2),
                                !.u.irq     = IF fn.pin # 0 THEN fn.line ELSE 0],
                       found |-> TRUE]
      IN IF fn.cls \in SerialClasses
         THEN IF bar % 2 # PCI_BASE_ADDRESS_SPACE_IO
              THEN ScanPci(m, bar_idx, b, d, nextf)
              ELSE Then(PciWriteBar(m.pci, s, 0, AllOnes32), Sized)
         ELSE IF fn.cls = ClassNone /\ f = 0
              THEN ScanPci(m, bar_idx, b, d, MaxFn + 1)
              ELSE ScanPci(m, bar_idx, b, d, nextf)

\* The result: the machine and the value returned.
pci_uart_config(m, skip_amt, bar_idx) ==
    LET r == ScanPci(m, bar_idx, IF skip_amt THEN 1 ELSE 0, 0, 0) IN
    IF r.found THEN [m |-> [r.m EXCEPT !.o.loc = "match"], rc |-> 0]
    ELSE IF ~skip_amt THEN [m |-> [r.m EXCEPT !.o.loc = "fail"], rc |-> -1]
    ELSE [m |-> [r.m EXCEPT !.u.io_base = 1016, !.u.irq = 0,
                            !.u.clock_hz = UART_CLOCK_HZ,
                            !.o.loc = "legacy"],
          rc |-> 0]

\* The fields of the string: the machine, and FALSE when the parser
\* returned at pci_uart_config.
ParseFields(m, conf) ==
    IF conf.bus = ""
    THEN [m |-> [m EXCEPT !.u = ApplyConf(m.u, conf)], ok |-> TRUE]
    ELSE LET m1 == [m EXCEPT !.u = ApplyConf(m.u, [conf EXCEPT !.irq = <<>>])]
             r  == pci_uart_config([m1 EXCEPT !.o.bus = conf.bus],
                                   conf.bus = "pci", m.idx)
         IN IF r.rc # 0 THEN [m |-> r.m, ok |-> FALSE]
            ELSE [m |-> [r.m EXCEPT
                           !.u = ApplyConf(@, [NoConf EXCEPT !.irq = conf.irq])],
                  ok |-> TRUE]

\* The result: the machine and whether serial_register_uart was called.
ns16550_parse_port_config(m, conf) ==
    IF ~conf.present /\ m.u.baud = 0 THEN [m |-> m, reg |-> FALSE]
    ELSE LET r == IF conf.present THEN ParseFields(m, conf)
                  ELSE [m |-> m, ok |-> TRUE]
         IN IF ~r.ok \/ SanityCheck(r.m.u) # "ok"
            THEN [m |-> r.m, reg |-> FALSE]
            ELSE LET e == check_existence(r.m) IN [m |-> e.m, reg |-> e.ok]

\* defaults: struct ns16550_defaults; has_console: console_has("comN")
ns16550_init(m, defaults, has_console, conf) ==
    LET u == [m.u EXCEPT
                !.baud = IF defaults.baud # 0 THEN defaults.baud
                         ELSE IF has_console THEN BAUD_AUTO ELSE 0,
                !.clock_hz  = UART_CLOCK_HZ,
                !.data_bits = defaults.data_bits,
                !.parity    = parse_parity_char(defaults.parity),
                !.stop_bits = defaults.stop_bits,
                !.irq       = defaults.irq,
                !.io_base   = defaults.io_base,
                !.fifo_size = 1]
    IN ns16550_parse_port_config([m EXCEPT !.u = u], conf)

(***************************************************************************)
(* State.                                                                  *)
(*   ns16550_com           the two descriptors                             *)
(*   delayed_resume_tries  the file-scope retry counter                    *)
(*   timer, resume_timer   whether each port's timers are pending          *)
(*   irq_ok                the interrupt handler of the port is installed  *)
(*   hw                    the register bank behind each port              *)
(*   phase                 where each port is in its life                  *)
(*   last                  the last driver entry point that ran, what it   *)
(*                         found on entry and what it did                  *)
(*   rh                    per port, what has happened since the last call *)
(*                         of ns16550_resume                               *)
(*   intr_seen             an interrupt has been delivered to the port     *)
(***************************************************************************)
VARIABLES ns16550_com, delayed_resume_tries, timer, resume_timer, irq_ok,
          hw, phase, last, rh, intr_seen, pci

vars == <<ns16550_com, delayed_resume_tries, timer, resume_timer, irq_ok,
          hw, phase, last, rh, intr_seen, pci>>

\* delayed_resume_tries is followed down to this value below zero, and a
\* port through this many failed probes after one call of ns16550_resume.
MaxUnderflow == RESUME_RETRIES + 2
MaxFails == RESUME_RETRIES + 4

\* The controller loses its register contents when it goes away.
Vanished(h) ==
    ResetBank(FALSE, h.iermask, h.ierstuck, h.loopok, h.msr, h.fifo,
              h.dll, h.dlm)

\* The register banks a port may sit on: a 16550A, an 8250 without FIFOs,
\* nothing at all, a bank whose IER bit 3 cannot be set, a bank whose IER
\* bit 0 is stuck at 1, and a bank without loopback.
GoodBank  == ResetBank(TRUE, 15, 0, TRUE, 0, TRUE, 1, 0)
OldBank   == ResetBank(TRUE, 15, 0, TRUE, 0, FALSE, 12, 0)
NoBank    == ResetBank(FALSE, 15, 0, TRUE, 0, TRUE, 1, 0)
MaskBank  == ResetBank(TRUE, 7, 0, TRUE, 0, TRUE, 1, 0)
StuckBank == ResetBank(TRUE, 15, 1, TRUE, 0, TRUE, 1, 0)
NoLoopBank == ResetBank(TRUE, 15, 0, FALSE, 176, TRUE, 1, 0)

RunBanks  == {GoodBank}
BootBanks == {GoodBank, OldBank, NoBank, MaskBank, StuckBank, NoLoopBank}

\* struct ns16550_defaults as the architecture passes it for com1 / com2
DefaultsOf(p) ==
    [baud |-> 0, data_bits |-> 8, parity |-> "n", stop_bits |-> 1,
     irq |-> IF p = 0 THEN 4 ELSE 3, io_base |-> IF p = 0 THEN 1016 ELSE 760]

\* com1=115200,8n1   com1=auto,8n1,0x3f8,0   com1=115200,9n1
RunConfs ==
    {NoConf,
     Conf(<<115200>>, Dps(8, "n", 1), <<>>, <<>>),
     Conf(<<BAUD_AUTO>>, Dps(8, "n", 1), <<1016>>, <<0>>),
     Conf(<<115200>>, Dps(9, "n", 1), <<>>, <<>>)}

\* one field out of range at a time, every field at its limits, and a
\* memory-mapped port
BootConfs ==
    RunConfs
    \cup {Conf(<<b>>, Dps(8, "e", 1), <<>>, <<>>) :
            b \in {1199, 1200, 115201}}
    \cup {Conf(<<9600>>, Dps(d, "o", 2), <<>>, <<>>) : d \in {4, 5, 9}}
    \cup {Conf(<<9600>>, Dps(7, "n", st), <<>>, <<>>) : st \in {0, 3}}
    \cup {Conf(<<1199>>, Dps(9, "n", 3), <<0>>, <<>>),
          Conf(<<BAUD_AUTO>>, <<>>, <<0>>, <<>>),
          Conf(<<BAUD_AUTO>>, <<>>, <<268435456>>, <<>>),
          Conf(<<0>>, <<>>, <<>>, <<-1>>)}

NoResume ==
    [fails |-> 0, scheds |-> 0, real |-> 0, forced |-> FALSE, ok |-> FALSE]

\* No function answers on the bus.
EmptyBus == [s \in PciSlots |-> NoFunction]

InitState(banks, buses) ==
    /\ pci \in buses
    /\ ns16550_com = [p \in Ports |-> ZeroUart]
    /\ delayed_resume_tries = 0
    /\ timer = [p \in Ports |-> FALSE]
    /\ resume_timer = [p \in Ports |-> FALSE]
    /\ irq_ok = [p \in Ports |-> FALSE]
    /\ hw \in [Ports -> banks]
    /\ phase = [p \in Ports |-> "zero"]
    /\ last = [op |-> "none", port |-> 0, o |-> NoObs, iw |-> FALSE,
               rx0 |-> 0, pres0 |-> FALSE, van |-> -1]
    /\ rh = [p \in Ports |-> NoResume]
    /\ intr_seen = [p \in Ports |-> FALSE]

InitWith(banks) == InitState(banks, {EmptyBus})

Init == InitWith(RunBanks)

\* The machine a handler of port p starts from.
M(p) ==
    [u |-> ns16550_com[p], h |-> hw[p], timer |-> timer[p],
     resume_timer |-> resume_timer[p], tries |-> delayed_resume_tries,
     irq_ok |-> irq_ok[p], o |-> NoObs, pci |-> pci, idx |-> p]

\* The state after handler op of port p has taken the machine to m and
\* left the port in phase ph.
Commit(p, op, mr, ph, van) ==
    \E m \in {mr} :
    /\ ns16550_com' = [ns16550_com EXCEPT ![p] = m.u]
    /\ hw' = [hw EXCEPT ![p] = IF m.h.present THEN m.h ELSE Vanished(m.h)]
    /\ timer' = [timer EXCEPT ![p] = m.timer]
    /\ resume_timer' = [resume_timer EXCEPT ![p] = m.resume_timer]
    /\ delayed_resume_tries' = m.tries
    /\ irq_ok' = [irq_ok EXCEPT ![p] = m.irq_ok]
    /\ pci' = m.pci
    /\ phase' = [phase EXCEPT ![p] = IF m.o.trap THEN "trapped" ELSE ph]
    /\ last' = [op |-> op, port |-> p, o |-> m.o,
                iw |-> ns16550_com[p].intr_works, rx0 |-> hw[p].rx,
                pres0 |-> hw[p].present, van |-> van]

\* A trap of the hypervisor ends the run.
Alive == \A q \in Ports : phase[q] # "trapped"

Live(p) == Alive /\ phase[p] \in {"running", "suspended"}

(***************************************************************************)
(* Boot: ns16550_init, then the generic layer runs the two init phases of  *)
(* every registered port.                                                  *)
(***************************************************************************)
DoInit(p, confs) ==
    /\ Alive /\ phase[p] = "zero"
    /\ \E conf \in confs, has_console \in BOOLEAN :
         LET r == ns16550_init(M(p), DefaultsOf(p), has_console, conf) IN
         Commit(p, "init", r.m, IF r.reg THEN "registered" ELSE "rejected", -1)
    /\ UNCHANGED <<rh, intr_seen>>

InitPreirq(p) ==
    /\ Alive /\ phase[p] = "registered"
    /\ Commit(p, "init_preirq", ns16550_init_preirq(M(p)), "preirq", -1)
    /\ UNCHANGED <<rh, intr_seen>>

InitPostirq(p) ==
    /\ Alive /\ phase[p] = "preirq"
    /\ \E rc \in {0, -1} :
         Commit(p, "init_postirq", ns16550_init_postirq(M(p), rc), "running", -1)
    /\ UNCHANGED <<rh, intr_seen>>

(***************************************************************************)
(* Run time.                                                               *)
(***************************************************************************)
Interrupt(p) ==
    /\ Live(p) /\ irq_ok[p]
    /\ \E txq \in BOOLEAN :
         Commit(p, "interrupt", ns16550_interrupt(M(p), txq), phase[p], -1)
    /\ intr_seen' = [intr_seen EXCEPT ![p] = TRUE]
    /\ UNCHANGED rh

\* The poll timer expires: the timer subsystem deactivates it and calls
\* ns16550_poll.
Poll(p) ==
    /\ Live(p) /\ timer[p]
    /\ \E txq \in BOOLEAN,
          van \in {-1} \cup (IF hw[p].present THEN 0..hw[p].rx ELSE {}) :
         Commit(p, "poll",
                ns16550_poll([M(p) EXCEPT !.timer = FALSE], van, txq),
                phase[p], van)
    /\ UNCHANGED <<rh, intr_seen>>

Suspend(p) ==
    /\ Alive /\ phase[p] = "running"
    /\ Commit(p, "suspend", ns16550_suspend(M(p)), "suspended", -1)
    /\ UNCHANGED <<rh, intr_seen>>

Resume(p) ==
    /\ Alive /\ phase[p] = "suspended"
    /\ \E m \in {ns16550_resume(M(p))} :
       /\ Commit(p, "resume", m, "running", -1)
       /\ rh' = [rh EXCEPT ![p] =
                   [fails  |-> IF ns16550_ioport_invalid(M(p)) THEN 1 ELSE 0,
                    scheds |-> m.o.sched, real |-> m.o.real,
                    forced |-> FALSE,
                    ok     |-> ~ns16550_ioport_invalid(M(p))]]
    /\ UNCHANGED intr_seen

\* The resume timer expires.
DelayedResume(p) ==
    /\ Live(p) /\ resume_timer[p]
    /\ ~(ns16550_ioport_invalid(M(p)) /\ delayed_resume_tries <= -MaxUnderflow)
    /\ ~(ns16550_ioport_invalid(M(p)) /\ rh[p].fails >= MaxFails)
    /\ \E m \in {ns16550_delayed_resume(
                      [M(p) EXCEPT !.resume_timer = FALSE])},
          inv \in {ns16550_ioport_invalid(M(p))} :
       /\ Commit(p, "delayed_resume", m, phase[p], -1)
       /\ rh' = [rh EXCEPT ![p] =
                   [fails  |-> @.fails + (IF inv THEN 1 ELSE 0),
                    scheds |-> @.scheds + m.o.sched,
                    real   |-> @.real + m.o.real,
                    forced |-> @.forced \/ (inv /\ m.o.real > 0),
                    ok     |-> @.ok \/ ~inv]]
    /\ UNCHANGED intr_seen

\* The synchronous callers of the generic layer.
Usable(p) == Alive /\ phase[p] \in {"preirq", "running", "suspended"}

TxReady(p) ==
    /\ Usable(p)
    /\ Commit(p, "tx_ready", ns16550_tx_ready(M(p)), phase[p], -1)
    /\ UNCHANGED <<rh, intr_seen>>

Putc(p) ==
    /\ Usable(p)
    /\ Commit(p, "putc", ns16550_putc(M(p), RxData), phase[p], -1)
    /\ UNCHANGED <<rh, intr_seen>>

Getc(p) ==
    /\ Usable(p)
    /\ Commit(p, "getc", ns16550_getc(M(p)), phase[p], -1)
    /\ UNCHANGED <<rh, intr_seen>>

(***************************************************************************)
(* The hardware: it goes away and comes back, receives a byte, finishes    *)
(* sending.                                                                *)
(***************************************************************************)
HwVanish(p) ==
    /\ Usable(p) /\ hw[p].present
    /\ hw' = [hw EXCEPT ![p] = Vanished(@)]
    /\ UNCHANGED <<ns16550_com, delayed_resume_tries, timer, resume_timer,
                   irq_ok, phase, last, rh, intr_seen, pci>>

HwAppear(p) ==
    /\ Usable(p) /\ ~hw[p].present
    /\ hw' = [hw EXCEPT ![p].present = TRUE]
    /\ UNCHANGED <<ns16550_com, delayed_resume_tries, timer, resume_timer,
                   irq_ok, phase, last, rh, intr_seen, pci>>

HwRx(p) ==
    /\ Usable(p) /\ hw[p].present /\ hw[p].rx < MaxRx
    /\ hw' = [hw EXCEPT ![p].rx = @ + 1]
    /\ UNCHANGED <<ns16550_com, delayed_resume_tries, timer, resume_timer,
                   irq_ok, phase, last, rh, intr_seen, pci>>

HwDrain(p) ==
    /\ Usable(p) /\ hw[p].present /\ ~hw[p].thre
    /\ hw' = [hw EXCEPT ![p].thre = TRUE, ![p].thri = TRUE]
    /\ UNCHANGED <<ns16550_com, delayed_resume_tries, timer, resume_timer,
                   irq_ok, phase, last, rh, intr_seen, pci>>

Step(p) ==
    \/ DoInit(p, RunConfs)
    \/ InitPreirq(p)
    \/ InitPostirq(p)
    \/ Interrupt(p)
    \/ Poll(p)
    \/ Suspend(p)
    \/ Resume(p)
    \/ DelayedResume(p)
    \/ TxReady(p)
    \/ Putc(p)
    \/ Getc(p)
    \/ HwVanish(p)
    \/ HwAppear(p)
    \/ HwRx(p)
    \/ HwDrain(p)

\* com1 alone is configured: ns16550_com[1] stays as the loader left it.
Next == \E p \in {0} : Step(p)

Spec == Init /\ [][Next]_vars

(***************************************************************************)
(* Both ports configured, through suspend and resume; a controller loses   *)
(* power while its port is suspended and comes back at any time.           *)
(***************************************************************************)
PowerOff(p) == phase[p] = "suspended" /\ HwVanish(p)

PowerStep(p) ==
    \/ DoInit(p, {Conf(<<115200>>, Dps(8, "n", 1), <<>>, <<0>>)})
    \/ InitPreirq(p)
    \/ InitPostirq(p)
    \/ Suspend(p)
    \/ Resume(p)
    \/ DelayedResume(p)
    \/ PowerOff(p)
    \/ HwAppear(p)

NextBothPorts == \E p \in Ports : PowerStep(p)

SpecBothPorts == Init /\ [][NextBothPorts]_vars

(***************************************************************************)
(* Boot alone, over every register bank and configuration string.          *)
(***************************************************************************)
InitBoot == InitWith(BootBanks)

BootStep(p) ==
    \/ DoInit(p, BootConfs)
    \/ InitPreirq(p)
    \/ InitPostirq(p)

NextBoot == \E p \in Ports : BootStep(p)

SpecBoot == InitBoot /\ [][NextBoot]_vars

\* The same boot, also over controllers whose IER the firmware has left at
\* 5 (receive and line-status interrupts enabled).
ProbeBanks ==
    BootBanks \cup {[GoodBank EXCEPT !.ier = 5], [MaskBank EXCEPT !.ier = 5]}

SpecProbe == InitWith(ProbeBanks) /\ [][NextBoot]_vars

(***************************************************************************)
(* Boot with com1=...,pci or com1=...,amt (and the same for com2) over     *)
(* every bus that holds up to two functions.  A function other than        *)
(* function 0 exists only in a device whose function 0 is multi-function.  *)
(***************************************************************************)
Io8   == [v |-> 57345, mask |-> 65528]
Io16  == [v |-> 53249, mask |-> 65520]
Mem4k == [v |-> 1073741824, mask |-> 2147479552]
NoBar == [v |-> 0, mask |-> 0]

Fn(cls, k0, k1, pin) ==
    [cls |-> cls, multi |-> FALSE,
     bar  |-> [i \in Ports |-> IF i = 0 THEN k0.v ELSE k1.v],
     mask |-> [i \in Ports |-> IF i = 0 THEN k0.mask ELSE k1.mask],
     pin |-> pin, line |-> 11, cmd |-> 0]

FnKinds ==
    {Fn(1792, k[1], k[2], pin) :
       k \in {<<Io8, Io8>>, <<Io8, Mem4k>>, <<Mem4k, Io8>>, <<Io16, Io8>>,
              <<Io8, Io16>>, <<NoBar, NoBar>>},
       pin \in {0, 1}}
    \cup {Fn(c, Io8, Io8, 1) : c \in {1794, 1920, 512}}

Heads == {s \in PciSlots : s[3] = 0}

Before(s, t) ==
    \/ s[1] < t[1]
    \/ s[1] = t[1] /\ s[2] < t[2]
    \/ s[1] = t[1] /\ s[2] = t[2] /\ s[3] < t[3]

PciBuses ==
    {EmptyBus}
    \cup {[EmptyBus EXCEPT ![s] = [k EXCEPT !.multi = mu]] :
            s \in Heads, k \in FnKinds, mu \in BOOLEAN}
    \cup {[EmptyBus EXCEPT ![st[1]] = k, ![st[2]] = l] :
            st \in {x \in Heads \X Heads : Before(x[1], x[2])},
            k \in FnKinds, l \in FnKinds}
    \cup {[EmptyBus EXCEPT ![s] = [k EXCEPT !.multi = TRUE],
                           ![<<s[1], s[2], f>>] = l] :
            s \in Heads, f \in 1..MaxFn, k \in FnKinds, l \in FnKinds}

PciConfs ==
    {PciConf(<<115200>>, Dps(8, "n", 1), bus, <<>>) : bus \in {"pci", "amt"}}

InitPci == InitState(RunBanks, PciBuses)

PciStep(p) == DoInit(p, PciConfs)

NextPci == \E p \in Ports : PciStep(p)

SpecPci == InitPci /\ [][NextPci]_vars

(***************************************************************************)
(* Boot over controllers whose divisor latch the firmware has left at      *)
(* every combination of these bytes: the latch at 0, at the usual 1 and    *)
(* 12, at a value with a high byte, and with bit 7 of either byte set.     *)
(***************************************************************************)
LatchBanks ==
    {ResetBank(TRUE, 15, 0, TRUE, 0, fifo, dll, dlm) :
       fifo \in BOOLEAN, dll \in {0, 1, 12, 128}, dlm \in {0, 1, 128}}

\* com1=auto,8n1   com1=auto,5e2,0x3f8,0   com1=1200,8e2   com1=115200,5n1
LatchConfs ==
    {Conf(<<BAUD_AUTO>>, Dps(8, "n", 1), <<>>, <<>>),
     Conf(<<BAUD_AUTO>>, Dps(5, "e", 2), <<1016>>, <<0>>),
     Conf(<<1200>>, Dps(8, "e", 2), <<>>, <<>>),
     Conf(<<115200>>, Dps(5, "n", 1), <<>>, <<>>)}

NextLatch ==
    \/ DoInit(0, LatchConfs)
    \/ InitPreirq(0)
    \/ InitPostirq(0)

SpecLatch == InitWith(LatchBanks) /\ [][NextLatch]_vars

(***************************************************************************)
(* The timer subsystem runs the callback of every pending timer.           *)
(***************************************************************************)
\* A byte arrives in an empty receiver.
FirstRx(p) == hw[p].rx = 0 /\ HwRx(p)

\* com1 with its default configuration, the timers, the interrupt, suspend
\* and resume, and the hardware coming and going.
TimerStep(p) ==
    \/ DoInit(p, {Conf(<<115200>>, Dps(8, "n", 1), <<>>, <<>>)})
    \/ InitPreirq(p)
    \/ InitPostirq(p)
    \/ Interrupt(p)
    \/ Poll(p)
    \/ Suspend(p)
    \/ Resume(p)
    \/ DelayedResume(p)
    \/ HwVanish(p)
    \/ HwAppear(p)
    \/ FirstRx(p)

NextLive == \E p \in {0} : TimerStep(p)

SpecLive ==
    Init /\ [][NextLive]_vars /\ WF_vars(Poll(0)) /\ WF_vars(DelayedResume(0))

\* The same steps, unscheduled, with com1 on a 16550A or on an 8250, which
\* has no FIFOs.
InitFifo == InitWith({GoodBank, OldBank}) /\ hw[1] = GoodBank

SpecFifo == InitFifo /\ [][NextLive]_vars

(***************************************************************************)
(* com1=auto through boot, suspend and resume, over controllers whose      *)
(* divisor latch the firmware has left at 1, 12, 100, 769, 780 or 868      *)
(* (bit 7 of both bytes clear).                                            *)
(***************************************************************************)
RoundTripBanks ==
    {ResetBank(TRUE, 15, 0, TRUE, 0, TRUE, dll, dlm) :
       dll \in {1, 12, 100}, dlm \in {0, 3}}

NextRoundTrip ==
    \/ DoInit(0, {Conf(<<BAUD_AUTO>>, Dps(8, "n", 1), <<>>, <<>>),
                  Conf(<<BAUD_AUTO>>, Dps(5, "e", 2), <<1016>>, <<0>>)})
    \/ InitPreirq(0)
    \/ InitPostirq(0)
    \/ Poll(0)
    \/ Suspend(0)
    \/ Resume(0)

SpecRoundTrip == InitWith(RoundTripBanks) /\ [][NextRoundTrip]_vars

(***************************************************************************)
(* Handlers that overlap.  The interrupt handler runs on the delivery of   *)
(* the line, whatever the processor is doing: a poll invocation that has   *)
(* tested intr_works (phase "polling") goes on after it.                   *)
(***************************************************************************)
\* The poll timer expires and __ns16550_poll finds intr_works false.
PollCheck(p) ==
    /\ Alive /\ phase[p] = "running" /\ timer[p]
    /\ ~ns16550_com[p].intr_works
    /\ Commit(p, "poll_check", [M(p) EXCEPT !.timer = FALSE], "polling", -1)
    /\ UNCHANGED <<rh, intr_seen>>

InterruptInPoll(p) ==
    /\ Alive /\ phase[p] = "polling" /\ irq_ok[p]
    /\ \E txq \in BOOLEAN :
         Commit(p, "interrupt", ns16550_interrupt(M(p), txq), "polling", -1)
    /\ intr_seen' = [intr_seen EXCEPT ![p] = TRUE]
    /\ UNCHANGED rh

PollFinish(p) ==
    /\ Alive /\ phase[p] = "polling"
    /\ \E txq \in BOOLEAN :
         Commit(p, "poll", PollRest(M(p), -1, txq), "running", -1)
    /\ UNCHANGED <<rh, intr_seen>>

\* A real resume, from ns16550_resume or from the resume timer, finds the
\* controller there and gets as far as selecting the divisor latch (phase
\* "latch").  No lock of the driver keeps the synchronous callers out.
ResumeOpen(p) ==
    /\ Alive /\ ~ns16550_ioport_invalid(M(p))
    /\ \/ phase[p] = "suspended"
       \/ phase[p] = "running" /\ resume_timer[p]
    /\ \E a \in {DidRead([M(p) EXCEPT !.resume_timer =
                              @ /\ phase[p] = "suspended"], UART_IER)} :
         Commit(p, "resume_open",
                SelectLatch([RestorePci(a) EXCEPT !.o.real = @ + 1]),
                "latch", -1)
    /\ UNCHANGED <<rh, intr_seen>>

PutcInWindow(p) ==
    /\ Alive /\ phase[p] = "latch"
    /\ Commit(p, "putc", ns16550_putc(M(p), RxData), "latch", -1)
    /\ UNCHANGED <<rh, intr_seen>>

ResumeClose(p) ==
    /\ Alive /\ phase[p] = "latch"
    /\ Commit(p, "resume_close",
              Then(ProgramLatch(M(p)),
                   LAMBDA a : IF a.o.trap THEN a ELSE ns16550_setup_postirq(a)),
              "running", -1)
    /\ UNCHANGED <<rh, intr_seen>>

RaceStep(p) ==
    \/ DoInit(p, {Conf(<<115200>>, Dps(8, "n", 1), <<>>, <<>>)})
    \/ InitPreirq(p)
    \/ InitPostirq(p)
    \/ Interrupt(p)
    \/ Poll(p)
    \/ PollCheck(p)
    \/ InterruptInPoll(p)
    \/ PollFinish(p)
    \/ Suspend(p)
    \/ Resume(p)
    \/ DelayedResume(p)
    \/ ResumeOpen(p)
    \/ PutcInWindow(p)
    \/ ResumeClose(p)
    \/ Putc(p)
    \/ PowerOff(p)
    \/ HwAppear(p)
    \/ FirstRx(p)
    \/ HwDrain(p)

SpecRace == Init /\ [][RaceStep(0)]_vars

(***************************************************************************)
(* Properties.                                                             *)
(***************************************************************************)
Quiet(o) == o.reads = 0 /\ o.writes = 0 /\ o.rx = 0 /\ o.tx = 0

RealResumeOps == {"resume", "delayed_resume"}

C3_RetriesThenOneRealResume ==
    /\ \A p \in Ports :
         (rh[p].real >= 1 /\ rh[p].fails < RESUME_RETRIES)
            => /\ rh[p].real = 1
               /\ rh[p].scheds = rh[p].fails
               /\ ~rh[p].forced
    /\ (last.op \in RealResumeOps /\ last.o.real > 0)
          => (last.o.real = 1 /\ last.o.pre = 1 /\ last.o.post = 1)

\* C4: when the probe never succeeds, the real resume is forced exactly
\* once, when the bounded counter is exhausted (after the probe of
\* ns16550_resume and RESUME_RETRIES + 1 probes of the retry timer have
\* failed), and the retry timer is scheduled no more than
\* RESUME_RETRIES + 1 times.
C4_ForcedOnceAtExhaustion ==
    \A p \in Ports :
       ~rh[p].ok
          => /\ rh[p].scheds <= RESUME_RETRIES + 1
             /\ rh[p].real = (IF rh[p].forced THEN 1 ELSE 0)
             /\ rh[p].forced => rh[p].fails = RESUME_RETRIES + 2

\* C5: a poll-timer invocation that runs with intr_works false, finds
\* received data ready for N bytes and then, on pass N+1, finds the hardware
\* gone, has invoked the receive callback exactly N times and the transmit
\* callback not at all, and has rearmed the poll timer exactly once.
C5_AbandonedPoll ==
    (last.op = "poll" /\ ~last.iw /\ (last.van >= 0 \/ ~last.pres0))
       => /\ last.o.rx = (IF last.pres0 THEN last.van ELSE 0)
          /\ last.o.tx = 0
          /\ last.o.rearm = 1

\* A poll took MaxRx bytes and was abandoned on the next pass.
C5_Witness ==
    /\ last.op = "poll" /\ ~last.iw /\ last.pres0
    /\ last.van = MaxRx
    /\ last.o.rx = MaxRx

\* C6: every poll-timer invocation that runs with intr_works false has
\* rearmed the poll timer once, at timeout_ms, when it returns, whether it
\* completed or was abandoned; and if from some point on the port runs
\* (not suspended) with intr_works false, the poll callback is invoked
\* again and again.
C6_PollKeepsRunning ==
    /\ [](\A p \in Ports :
            (last.op = "poll" /\ last.port = p /\ ~last.iw)
               => /\ last.o.rearm = 1
                  /\ last.o.ms = ns16550_com[p].timeout_ms
                  /\ timer[p])
    /\ (<>[](phase[0] = "running" /\ ~ns16550_com[0].intr_works))
          => []<>(last.op = "poll" /\ last.port = 0 /\ timer[0])

\* An abandoned poll has rearmed the timer.
C6_Witness ==
    /\ last.op = "poll" /\ ~last.iw /\ ~last.pres0
    /\ last.o.rearm = 1
    /\ last.o.ms > 0
    /\ timer[last.port]
    /\ phase[last.port] = "running"

InRange(u) ==
    /\ u.data_bits \in 5..8
    /\ u.stop_bits \in {1, 2}
    /\ u.baud = BAUD_AUTO \/ u.baud \in 1200..115200
    /\ u.io_base # 0

\* C7: a port is registered only if data_bits is in 5..8, stop_bits is 1 or
\* 2, baud is auto or in 1200..115200 and io_base is not zero; a
\* configuration with a value outside is rejected, and the port goes
\* through no setup phase.
C7_RegisteredOnlyInRange ==
    \A p \in Ports :
       /\ phase[p] = "registered" => InRange(ns16550_com[p])
       /\ phase[p] \in {"preirq", "running", "trapped"}
            => /\ ns16550_com[p].data_bits \in 5..8
               /\ ns16550_com[p].stop_bits \in {1, 2}
               /\ ns16550_com[p].io_base # 0
       /\ (last.op = "init" /\ last.port = p /\ ~InRange(ns16550_com[p]))
            => phase[p] = "rejected"

\* A port was registered at the lowest baud rate with 5 data bits and 2
\* stop bits, and another configuration was rejected for its stop_bits.
C7_Witness ==
    \E p, q \in Ports :
       /\ phase[p] = "registered"
       /\ ns16550_com[p].data_bits = 5 /\ ns16550_com[p].stop_bits = 2
       /\ phase[q] = "rejected"
       /\ SanityCheck(ns16550_com[q]) = "stop_bits"

\* What the probe looks for, read off the register bank.
IerRoundTrips(h) ==
    /\ RegVal(AfterWrite(h, UART_IER, 0), UART_IER) % 16 = 0
    /\ RegVal(AfterWrite(h, UART_IER, 15), UART_IER) % 16 = 15

LoopbackSignature(h) ==
    RegVal(AfterWrite(h, UART_MCR, UART_MCR_LOOP + 10), UART_MSR) \div 16 = 9

\* C8: for a port-mapped port, when IER does not give back 0 and 0x0F in
\* its low nibble, or MSR in loopback does not show 0x9 in its high nibble,
\* the port is not registered and goes through no setup phase.
C8_ProbeGuardsRegistration ==
    \A p \in Ports :
       (phase[p] \notin {"zero", "rejected"} /\ ~IsMmio(ns16550_com[p]))
          => (IerRoundTrips(hw[p]) /\ LoopbackSignature(hw[p]))

\* A configuration in range was rejected because the loopback signature was
\* wrong, and another because IER did not round-trip.
C8_Witness ==
    \E p, q \in Ports :
       /\ phase[p] = "rejected" /\ InRange(ns16550_com[p])
       /\ ~IsMmio(ns16550_com[p])
       /\ IerRoundTrips(hw[p]) /\ ~LoopbackSignature(hw[p])
       /\ phase[q] = "rejected" /\ InRange(ns16550_com[q])
       /\ hw[q].present /\ ~IerRoundTrips(hw[q])

\* The machine a handler of port p would start from in the next state.
MAfter(p) ==
    [u |-> ns16550_com'[p], h |-> hw'[p], timer |-> timer'[p],
     resume_timer |-> resume_timer'[p], tries |-> delayed_resume_tries',
     irq_ok |-> irq_ok'[p], o |-> NoObs, pci |-> pci', idx |-> p]

\* C9: tx_ready writes no register, changes neither the descriptor nor the
\* hardware nor a timer, and a second call right after it returns the same
\* result.
C9_TxReadyIsPure ==
    [][\A p \in Ports :
         TxReady(p)
            => /\ last'.o.writes = 0
               /\ hw' = hw
               /\ ns16550_com' = ns16550_com
               /\ timer' = timer /\ resume_timer' = resume_timer
               /\ delayed_resume_tries' = delayed_resume_tries
               /\ ns16550_tx_ready(MAfter(p)).o.ret = last'.o.ret]_vars

\* tx_ready has run with the transmitter-empty interrupt pending and a
\* byte waiting in the receiver.
C9_Witness ==
    /\ last.op = "tx_ready"
    /\ last.o.ret > 0
    /\ last.o.reads = 2
    /\ hw[last.port].thri
    /\ hw[last.port].rx > 0

\* C10: tx_ready returns -EIO, a negative value, exactly when the hardware
\* is gone (IER reads as all ones); otherwise it returns fifo_size when the
\* transmit holding register is empty and 0 when it is not.
C10_TxReadyResult ==
    [][\A p \in Ports :
         TxReady(p)
            => /\ last'.o.ret =
                    (IF RegVal(hw[p], UART_IER) = AllOnes THEN -EIO
                     ELSE IF hw[p].thre THEN ns16550_com[p].fifo_size
                     ELSE 0)
               /\ (last'.o.ret < 0) = ~hw[p].present
               /\ ns16550_com[p].fifo_size > 0
               /\ -EIO \notin {0, ns16550_com[p].fifo_size}]_vars

\* tx_ready has found the hardware gone.
C10_Witness ==
    /\ last.op = "tx_ready"
    /\ ~last.pres0
    /\ last.o.ret = -EIO
    /\ last.o.reads = 1

\* Port p has just gone through ns16550_init.
Initialised(p) == phase[p] = "zero" /\ phase'[p] # "zero"

\* C11: the scan of the bus locator leaves every BAR of every function
\* holding the value it held before, for the rejected functions and the
\* accepted one, for every target BAR index.
C11_ScanRestoresBars ==
    [][\A p \in Ports :
         Initialised(p)
            => \A s \in PciSlots, i \in Ports :
                  pci'[s].bar[i] = pci[s].bar[i]]_vars

\* The functions the locator is to accept for BAR index i: a serial class
\* and an I/O BAR i of 8 bytes, from bus 1 on when skip_amt is set.
Matches(cfg, i, skip_amt) ==
    {s \in PciSlots :
       /\ s[1] >= (IF skip_amt THEN 1 ELSE 0)
       /\ cfg[s].cls \in SerialClasses
       /\ cfg[s].bar[i] % 2 = 1
       /\ cfg[s].mask[i] = 65528}

Lowest(S) == CHOOSE s \in S : \A t \in S : t = s \/ Before(s, t)

\* C12: the locator selects the lowest (bus, device, function), from bus 1
\* on when skip_amt is set, whose class is a serial class and whose target
\* BAR is an I/O BAR of exactly 8 bytes; when there is none it falls back
\* to io_base 0x3f8, irq 0 if skip_amt is set, and fails otherwise.
C12_LowestMatchOrFallback ==
    [][\A p \in Ports :
         (Initialised(p) /\ last'.o.bus # "")
            => LET S == Matches(pci, p, last'.o.bus = "pci") IN
               IF S # {}
               THEN /\ last'.o.loc = "match"
                    /\ ns16550_com'[p].ps_bdf = Lowest(S)
                    /\ ns16550_com'[p].io_base = pci[Lowest(S)].bar[p] - 1
               ELSE IF last'.o.bus = "pci"
               THEN /\ last'.o.loc = "legacy"
                    /\ ns16550_com'[p].io_base = 1016
                    /\ ns16550_com'[p].irq = 0
               ELSE /\ last'.o.loc = "fail"
                    /\ phase'[p] = "rejected"]_vars

\* Port p has just gone through ns16550_init_postirq, which has returned.
PostirqRan(p) == phase[p] = "preirq" /\ phase'[p] = "running"

\* The call has armed the poll timer once, timeout_ms from now.
ArmedAtTimeout(p) ==
    /\ timer'[p]
    /\ last'.o.rearm = 1
    /\ last'.o.ms = ns16550_com'[p].timeout_ms

\* C13 as stated: the post-interrupt setup arms the poll timer at
\* timeout_ms for every irq value, and also when the registration of the
\* interrupt handler fails.
C13_TimerAlwaysArmed ==
    [][\A p \in Ports : PostirqRan(p) => ArmedAtTimeout(p)]_vars

\* C13 amended: the post-interrupt setup arms the poll timer at timeout_ms
\* for every irq >= 0, whether the registration of the interrupt handler
\* succeeds or fails; for a negative irq it returns at once, arms no timer
\* and touches no register.
C13_TimerArmedUnlessNegativeIrq ==
    [][\A p \in Ports :
         PostirqRan(p)
            => IF ns16550_com[p].irq >= 0
               THEN ArmedAtTimeout(p)
               ELSE /\ ~timer'[p]
                    /\ last'.o.rearm = 0
                    /\ Quiet(last'.o)]_vars

\* The registration of the interrupt handler has failed and the poll timer
\* is armed all the same.
C13_Witness ==
    /\ last.op = "init_postirq"
    /\ phase[last.port] = "running"
    /\ ns16550_com[last.port].irq > 0
    /\ ~irq_ok[last.port]
    /\ timer[last.port]
    /\ last.o.ms = ns16550_com[last.port].timeout_ms

\* Port p has just gone through ns16550_init_preirq.
PreirqRan(p) == phase[p] = "registered" /\ phase'[p] # "registered"

\* The divisor latch of a bank, DLL | DLM << 8.
Latch(h) == h.dll + h.dlm * 256

\* C14: with baud = BAUD_AUTO, the pre-interrupt setup over a divisor latch
\* holding X leaves baud = clock_hz / (X << 4), for every 16-bit X.
C14_AutoBaudFromLatch ==
    [][\A p \in Ports :
         (PreirqRan(p) /\ ns16550_com[p].baud = BAUD_AUTO)
            => /\ Latch(hw[p]) # 0
               /\ phase'[p] = "preirq"
               /\ ns16550_com'[p].baud
                     = ns16550_com[p].clock_hz \div (Latch(hw[p]) * 16)]_vars

\* C15: after the post-interrupt initialisation timeout_ms is
\* max(1, (data_bits + stop_bits + (parity # none)) * fifo_size * 1000 / baud)
\* and so at least 1, for every accepted descriptor, one whose baud was read
\* from the divisor latch included.
C15_TimeoutFormula ==
    [][\A p \in Ports :
         (phase[p] = "preirq" /\ phase'[p] # "preirq")
            => LET u    == ns16550_com[p]
                   bits == u.data_bits + u.stop_bits
                           + (IF u.parity = 0 THEN 0 ELSE 1)
               IN /\ phase'[p] = "running"
                  /\ u.baud # 0
                  /\ ns16550_com'[p].timeout_ms >= 1
                  /\ \/ ns16550_com'[p].timeout_ms
                          = (bits * u.fifo_size * 1000) \div u.baud
                     \/ /\ ns16550_com'[p].timeout_ms = 1
                        /\ (bits * u.fifo_size * 1000) \div u.baud < 1]_vars

\* C16: fifo_size of a descriptor changes only from 1 to 16, never back,
\* and only in the pre-interrupt phase, which has read the FIFO signature
\* (bits 6 and 7 of IIR) from the hardware; ns16550_init leaves it at 1, and
\* suspend, resume, poll and interrupt leave it unchanged.
C16_FifoSizeOnlyUpgraded ==
    [][\A p \in Ports :
         /\ Initialised(p) => ns16550_com'[p].fifo_size = 1
         /\ (phase[p] # "zero"
               /\ ns16550_com'[p].fifo_size # ns16550_com[p].fifo_size)
              => /\ ns16550_com[p].fifo_size = 1
                 /\ ns16550_com'[p].fifo_size = 16
                 /\ PreirqRan(p)
                 /\ last'.op = "init_preirq"
                 /\ last'.o.reads >= 2
                 /\ RegVal(hw'[p], UART_IIR) \div 64 = 3]_vars

\* A port with FIFOs has been through suspend and a real resume.
C16_Witness ==
    /\ last.op \in RealResumeOps
    /\ last.o.real = 1
    /\ ns16550_com[last.port].fifo_size = 16
    /\ hw[last.port].present

\* C17: every invocation of the interrupt handler sets intr_works and
\* returns only when IIR reports no pending cause; every pass of its loop
\* invokes the transmit callback if LSR reports THRE and the receive
\* callback if LSR reports DR; when the hardware has vanished it returns
\* after the one read of IIR.
C17_InterruptDrainsAllCauses ==
    [][\A p \in Ports :
         (last'.op = "interrupt" /\ last'.port = p /\ last' # last)
            => /\ ns16550_com'[p].intr_works
               /\ Test(RegVal(hw'[p], UART_IIR), UART_IIR_NOINT)
               /\ last'.o.tx = last'.o.thre
               /\ last'.o.rx = last'.o.dr
               /\ hw[p].present
                    => (last'.o.pass = 0)
                         = Test(RegVal(hw[p], UART_IIR), UART_IIR_NOINT)
               /\ ~hw[p].present
                    => /\ last'.o.pass = 0
                       /\ last'.o.reads = 1
                       /\ last'.o.writes = 0]_vars

\* One invocation has served a received byte and the empty transmitter.
C17_Witness ==
    /\ last.op = "interrupt"
    /\ last.o.pass >= 1
    /\ last.o.rx >= 1
    /\ last.o.tx >= 1
    /\ ns16550_com[last.port].intr_works

C19_GetcConsumesOnlyReadyData ==
    [][\A p \in Ports :
         (last'.op = "getc" /\ last'.port = p /\ last' # last)
            => IF /\ RegVal(hw[p], UART_IER) # AllOnes
                  /\ Test(RegVal(hw[p], UART_LSR), UART_LSR_DR)
               THEN /\ last'.o.ret = 1
                    /\ last'.o.pc = S8(RegVal(hw[p], UART_RBR))
                    /\ hw'[p].rx = hw[p].rx - 1
                    /\ last'.o.reads = 3
               ELSE /\ last'.o.ret = 0
                    /\ last'.o.pc = NoObs.pc
                    /\ hw'[p].rx = hw[p].rx
                    /\ last'.o.reads \in {1, 2}]_vars

\* getc has found the hardware gone and has returned "no data".
C19_Witness ==
    /\ last.op = "getc"
    /\ ~last.pres0
    /\ last.o.ret = 0
    /\ last.o.reads = 1
    /\ last.o.pc = NoObs.pc

\* C20: the identification probe of a port-mapped candidate leaves IER
\* holding the value it had before the probe, whether the existence test
\* passes or fails; a memory-mapped candidate is reported present, and so
\* registered, without any register access.
C20_ProbeRestoresIer ==
    [][\A p \in Ports :
         Initialised(p)
            => /\ RegVal(hw'[p], UART_IER) = RegVal(hw[p], UART_IER)
               /\ (IsMmio(ns16550_com'[p]) /\ InRange(ns16550_com'[p]))
                    => /\ phase'[p] = "registered"
                       /\ Quiet(last'.o)
                       /\ hw'[p] = hw[p]]_vars

\* The existence test has failed on a controller whose IER held 5, and IER
\* holds 5 again.
C20_Witness ==
    /\ last.op = "init"
    /\ phase[last.port] = "rejected"
    /\ ~IsMmio(ns16550_com[last.port])
    /\ last.o.reads = 3
    /\ last.o.writes = 3
    /\ RegVal(hw[last.port], UART_IER) = 5

\* C21: the bound on resume retries holds for each port on its own: with
\* both ports resuming and their retry timers interleaved, a port's retry
\* timer is scheduled at most RESUME_RETRIES times by its callback, and once
\* by ns16550_resume, before its real resume is forced, whatever the other
\* port's retries do.
C21_RetryBoundPerPort ==
    \A p \in Ports :
       /\ rh[p].scheds <= RESUME_RETRIES + 1
       /\ rh[p].fails > RESUME_RETRIES + 1 => rh[p].real >= 1

\* C22: the poll path and the interrupt path exclude each other under every
\* interleaving: a poll invocation that goes through its receive loop, its
\* transmit side or set_timer does so with intr_works false, also when the
\* interrupt handler has run after the invocation tested intr_works.
C22_PollExcludedByInterrupt ==
    \A p \in Ports :
       (last.op = "poll" /\ last.port = p /\ last.iw)
          => /\ last.o.rx = 0
             /\ last.o.tx = 0
             /\ last.o.rearm = 0

\* C23: every byte passed to putc is written to the transmit-holding
\* register: at every putc, getc, poll or interrupt access to register 0
\* DLAB is clear, also when ns16550_setup_preirq runs from the resume or
\* delayed-resume path while synchronous callers are active; so no such
\* call changes the divisor latch.
C23_NoAccessInLatchWindow ==
    [][\A p \in Ports :
         (/\ last'.op \in {"putc", "getc", "poll", "interrupt"}
          /\ last'.port = p
          /\ last' # last)
            => /\ ~Dlab(hw[p])
               /\ Latch(hw'[p]) = Latch(hw[p])]_vars

\* C24: for a port configured with baud = auto whose divisor latch held X
\* at boot, the divisor a later real resume programs into the latch,
\* clock_hz / (baud << 4) with baud the value detected at boot, is X again,
\* for every nonzero 16-bit X: the line rate after resume is the one before
\* suspend.
C24_ResumeKeepsDivisor ==
    [][\A p \in Ports :
         (/\ phase[p] = "suspended" /\ phase'[p] # "suspended"
          /\ last'.o.real = 1)
            => /\ phase'[p] = "running"
               /\ Latch(hw'[p]) = Latch(hw[p])]_vars

====
